---- MODULE Spec2Model ----
(***************************************************************************)
(* Model of jiajukangwork/platform, src/server:                            *)
(*   PygameServer.py       the session manager and the per-session frame   *)
(*                         loop (asyncio tasks around a shared dict)       *)
(*   example_experiment.py the simulation engine (ExperimentRunner, Car)   *)
(* The two files do not call each other: the server drives a simulated     *)
(* experiment (a frame counter), the engine is driven through its own      *)
(* methods.  Each has its own specification over its own variables.        *)
(***************************************************************************)
EXTENDS Integers, Sequences, FiniteSets, TLC

(***************************************************************************)
(* PygameServer.py                                                         *)
(***************************************************************************)
VARIABLES
  clients,               \* keys of the module-level dict `clients`
  experiment_instances,  \* keys of the module-level dict `experiment_instances`
  experiment_results,    \* keys of the module-level dict `experiment_results`
  experiment,            \* the per-connection dict object (running, start_time, frame_count)
  tasks,                 \* generate_frames tasks per connection: position -> number of tasks
  hist,                  \* what the connection has observed (outbound messages, last control)
  ignored                \* the message the last step returned on without effect, as <<id, type>>

\* the registries, the session dicts and their tasks, with what was sent
sessionVars == <<clients, experiment_instances, experiment_results, experiment, tasks, hist>>

serverVars == <<clients, experiment_instances, experiment_results, experiment, tasks, hist, ignored>>

VARIABLES
  runner,   \* the ExperimentRunner instance
  rng,      \* what the random module returns: [s, p] indexes the outcomes
  age,      \* ticks since the phase last changed (saturating), schedules key events
  resetFrom \* the phase reset() was last called in, until the next call of a method

engineVars == <<runner, rng, age, resetFrom>>

VARIABLES
  car,   \* a Car object updated on its own
  dt,    \* the dt of the last Car.update call, as <<numerator, denominator>>
  ticks  \* Car.update calls made on car

carVars == <<car, dt, ticks>>

vars == <<serverVars, engineVars, carVars>>

\* connection identifiers (uuid4 strings in the source)
AllIds == {"c1", "c2"}
\* the connection Spec follows
ServerIds == {"c1"}

\* the simulated experiment completes at this frame count
FramesToComplete == 300
\* cap on generate_frames tasks alive at once for one connection, and on the
\* frames past completion at which a START is still followed
MaxLoops == 2

\* positions of a generate_frames task: created by create_task and not yet
\* run; suspended in `await ws.send_json(FRAME)`; in `await asyncio.sleep`;
\* in `await ws.send_json(EXPERIMENT_COMPLETE)`; in `await send_json(ERROR)`
PCs == {"new", "send", "sleep", "send_complete", "send_error"}

NoTasks == [p \in PCs |-> 0]

Live(c) == tasks[c]["new"] + tasks[c]["send"] + tasks[c]["sleep"]
           + tasks[c]["send_complete"] + tasks[c]["send_error"]

\* a task leaves position `from`; `to` = "done" means it has returned
Move(t, from, to) ==
  IF to = "done" THEN [t EXCEPT ![from] = @ - 1]
  ELSE IF to = from THEN t
  ELSE [t EXCEPT ![from] = @ - 1, ![to] = @ + 1]

\* the dict create_experiment_instance stores
NewInstance == [running |-> FALSE, start_time |-> FALSE, frame_count |-> 0]

NewHist == [completes |-> 0, frameAfterComplete |-> FALSE,
            lastCtl |-> "none", stopTicks |-> 0, err |-> "none"]

\* bookkeeping of one FRAME emission attempt (delivered iff the socket is open)
HistFrame(h, delivered) ==
  [h EXCEPT !.frameAfterComplete = @ \/ (delivered /\ h.completes > 0),
            !.stopTicks = IF h.lastCtl \in {"PAUSE", "CLOSE"} /\ @ < 2 THEN @ + 1 ELSE @,
            !.err = IF delivered /\ @ = "sent" THEN "frame" ELSE @]

\* frames of each session during which a second connection is followed
PeerFrames == 1

\* a connection that has not sent a control message nor closed
Quiet(c) == hist[c].lastCtl \in {"none", "OPEN"}

\* frames of a session during which messages without effect are followed
MsgFrames == 2

\* the runs followed: the connections other than ServerIds stay quiet, or
\* every session is within its first PeerFrames frames; a message without
\* effect is looked at for the connection of ServerIds, within the first
\* MsgFrames frames of its session and before another connection is opened
Followed ==
  /\ \/ \A c \in AllIds \ ServerIds : Quiet(c)
     \/ \A c \in AllIds : experiment[c].frame_count <= PeerFrames
  /\ \/ ignored[1] \notin AllIds
     \/ /\ ignored[1] \in ServerIds
        /\ experiment[ignored[1]].frame_count <= MsgFrames
        /\ \A c \in AllIds \ ServerIds : hist[c].lastCtl = "none"

\* live tasks followed per connection: one for a second connection
LoopCap(c) == IF c \in ServerIds THEN MaxLoops ELSE 1

\* the last step was no message returned on without effect
NoMessage == <<"none", "none">>

\* values of data.get('type') that are none of the four handled ones: another
\* type, a handled one in lower case, and the None of a missing key
UnknownTypes == {"PING", "start", "None"}

\* a handler returns at once: nothing is assigned, created or sent
Ignore(c, type) ==
  /\ ignored' = <<c, type>>
  /\ UNCHANGED sessionVars

ServerInit ==
  /\ ignored = NoMessage
  /\ clients = {}
  /\ experiment_instances = {}
  /\ experiment_results = {}
  /\ experiment = [c \in AllIds |-> NewInstance]
  /\ tasks = [c \in AllIds |-> NoTasks]
  /\ hist = [c \in AllIds |-> NewHist]

\* handle_websocket starting the frame loop as soon as the instance exists
Connect_autostart(c) ==
  /\ c \notin clients
  /\ hist[c].lastCtl = "none"
  /\ clients' = clients \cup {c}
  /\ experiment_instances' = experiment_instances \cup {c}
  /\ experiment' = [experiment EXCEPT ![c] = [NewInstance EXCEPT !.running = TRUE]]
  /\ tasks' = [tasks EXCEPT ![c]["new"] = @ + 1]
  /\ hist' = [hist EXCEPT ![c].lastCtl = "OPEN"]
  /\ UNCHANGED experiment_results
  /\ ignored' = NoMessage
  /\ UNCHANGED <<engineVars, carVars>>
  /\ Followed'

\* handle_websocket up to `async for`: register the socket, create the instance
Connect(c) ==
  /\ c \notin clients
  /\ hist[c].lastCtl = "none"
  /\ clients' = clients \cup {c}
  /\ experiment_instances' = experiment_instances \cup {c}
  /\ experiment' = [experiment EXCEPT ![c] = NewInstance]
  /\ hist' = [hist EXCEPT ![c].lastCtl = "OPEN"]
  /\ UNCHANGED <<experiment_results, tasks>>
  /\ ignored' = NoMessage
  /\ UNCHANGED <<engineVars, carVars>>
  /\ Followed'

\* handle_websocket, the finally block
Disconnect(c) ==
  /\ c \in clients
  /\ clients' = clients \ {c}
  /\ experiment_instances' = experiment_instances \ {c}
  /\ hist' = [hist EXCEPT ![c].lastCtl = "CLOSE", ![c].stopTicks = 0]
  /\ UNCHANGED <<experiment_results, experiment, tasks>>
  /\ ignored' = NoMessage
  /\ UNCHANGED <<engineVars, carVars>>
  /\ Followed'

\* start_experiment without `if client_id not in experiment_instances: return`,
\* making the entry it does not find
start_experiment_unguarded(c) ==
  /\ Live(c) < LoopCap(c)
  /\ experiment[c].frame_count < FramesToComplete + MaxLoops
  /\ experiment_instances' = experiment_instances \cup {c}
  /\ experiment' = [experiment EXCEPT ![c].running = TRUE, ![c].start_time = TRUE]
  /\ tasks' = [tasks EXCEPT ![c]["new"] = @ + 1]
  /\ hist' = [hist EXCEPT ![c].lastCtl = "START", ![c].stopTicks = 0,
                          ![c].err = "none"]
  /\ ignored' = IF c \in experiment_instances THEN NoMessage ELSE <<c, "START">>
  /\ UNCHANGED <<clients, experiment_results>>
  /\ UNCHANGED <<engineVars, carVars>>
  /\ Followed'

start_experiment(c) ==
  /\ Live(c) < LoopCap(c)
  /\ experiment[c].frame_count < FramesToComplete + MaxLoops
  /\ IF c \notin experiment_instances
     THEN Ignore(c, "START")
     ELSE /\ experiment' = [experiment EXCEPT ![c].running = TRUE, ![c].start_time = TRUE]
          /\ tasks' = [tasks EXCEPT ![c]["new"] = @ + 1]
          /\ hist' = [hist EXCEPT ![c].lastCtl = "START", ![c].stopTicks = 0,
                                  ![c].err = "none"]
          /\ ignored' = NoMessage
          /\ UNCHANGED <<clients, experiment_instances, experiment_results>>
  /\ UNCHANGED <<engineVars, carVars>>
  /\ Followed'

\* pause_experiment clearing the flag of every session
pause_experiment_all(c) ==
  /\ IF c \notin experiment_instances
     THEN Ignore(c, "PAUSE")
     ELSE /\ experiment' = [d \in AllIds |-> [experiment[d] EXCEPT !.running = FALSE]]
          /\ hist' = [hist EXCEPT ![c].lastCtl = "PAUSE", ![c].stopTicks = 0]
          /\ ignored' = NoMessage
          /\ UNCHANGED <<clients, experiment_instances, experiment_results, tasks>>
  /\ UNCHANGED <<engineVars, carVars>>
  /\ Followed'

pause_experiment(c) ==
  /\ IF c \notin experiment_instances
     THEN Ignore(c, "PAUSE")
     ELSE /\ experiment' = [experiment EXCEPT ![c].running = FALSE]
          /\ hist' = [hist EXCEPT ![c].lastCtl = "PAUSE", ![c].stopTicks = 0]
          /\ ignored' = NoMessage
          /\ UNCHANGED <<clients, experiment_instances, experiment_results, tasks>>
  /\ UNCHANGED <<engineVars, carVars>>
  /\ Followed'

reset_experiment(c) ==
  /\ IF c \notin experiment_instances
     THEN Ignore(c, "RESET")
     ELSE /\ experiment' = [experiment EXCEPT ![c].running = TRUE, ![c].start_time = TRUE,
                                              ![c].frame_count = 0]
          /\ hist' = [hist EXCEPT ![c].lastCtl = "RESET", ![c].stopTicks = 0,
                                  ![c].completes = 0, ![c].frameAfterComplete = FALSE,
                                  ![c].err = "none"]
          /\ ignored' = NoMessage
          /\ UNCHANGED <<clients, experiment_instances, experiment_results, tasks>>
  /\ UNCHANGED <<engineVars, carVars>>
  /\ Followed'

\* logs the key; no state is touched
handle_key_event(c) ==
  /\ IF c \notin experiment_instances
     THEN Ignore(c, "KEY_EVENT")
     ELSE /\ ignored' = NoMessage
          /\ UNCHANGED sessionVars
  /\ UNCHANGED <<engineVars, carVars>>
  /\ Followed'

\* handle_client_message ending in `else: await self.start_experiment(...)`
UnknownMessage_starts(c) ==
  /\ c \in clients
  /\ Live(c) < LoopCap(c)
  /\ experiment' = [experiment EXCEPT ![c].running = TRUE, ![c].start_time = TRUE]
  /\ tasks' = [tasks EXCEPT ![c]["new"] = @ + 1]
  /\ \E type \in UnknownTypes : ignored' = <<c, type>>
  /\ UNCHANGED <<clients, experiment_instances, experiment_results, hist>>
  /\ UNCHANGED <<engineVars, carVars>>
  /\ Followed'

\* handle_client_message with a type that is none of the four
UnknownMessage(c) ==
  /\ c \in clients
  /\ \E type \in UnknownTypes : Ignore(c, type)
  /\ UNCHANGED <<engineVars, carVars>>
  /\ Followed'

\* except-branch of generate_frames for a task at position `from`; err
\* notes the ERROR message (sent), and a FRAME delivered after it (frame),
\* until the next START or RESET
Raise(c, from) ==
  IF c \in clients
  THEN /\ tasks' = [tasks EXCEPT ![c] = Move(@, from, "send_error")]
       /\ hist' = [hist EXCEPT ![c].err = IF @ = "none" THEN "sent" ELSE @]
       /\ UNCHANGED <<clients, experiment_instances, experiment_results, experiment>>
  ELSE /\ tasks' = [tasks EXCEPT ![c] = Move(@, from, "done")]
       /\ UNCHANGED <<clients, experiment_instances, experiment_results, experiment, hist>>

\* one pass through the head of `while experiment['running']` up to the
\* first await; encodeOk = generate_dummy_frame returned
LoopHead(c, from, encodeOk) ==
  IF ~experiment[c].running
  THEN /\ tasks' = [tasks EXCEPT ![c] = Move(@, from, "done")]
       /\ UNCHANGED <<clients, experiment_instances, experiment_results, experiment, hist>>
  ELSE IF ~encodeOk
  THEN Raise(c, from)
  ELSE IF c \in clients
  THEN \* frame_count += 1; ws.send_json(FRAME) suspends
       /\ experiment' = [experiment EXCEPT ![c].frame_count = @ + 1]
       /\ tasks' = [tasks EXCEPT ![c] = Move(@, from, "send")]
       /\ hist' = [hist EXCEPT ![c] = HistFrame(@, TRUE)]
       /\ UNCHANGED <<clients, experiment_instances, experiment_results>>
  ELSE \* the socket is closed: send_json raises ConnectionResetError,
       \* the handler finds the connection gone and returns
       /\ experiment' = [experiment EXCEPT ![c].frame_count = @ + 1]
       /\ tasks' = [tasks EXCEPT ![c] = Move(@, from, "done")]
       /\ hist' = [hist EXCEPT ![c] = HistFrame(@, FALSE)]
       /\ UNCHANGED <<clients, experiment_instances, experiment_results>>

\* a created task runs for the first time
TaskBegin(c) ==
  /\ tasks[c]["new"] > 0
  /\ IF c \notin experiment_instances \/ c \notin clients
     THEN /\ tasks' = [tasks EXCEPT ![c] = Move(@, "new", "done")]
          /\ UNCHANGED <<clients, experiment_instances, experiment_results, experiment, hist>>
     ELSE \E encodeOk \in BOOLEAN : LoopHead(c, "new", encodeOk)
  /\ ignored' = NoMessage
  /\ UNCHANGED <<engineVars, carVars>>
  /\ Followed'

\* `await ws.send_json(FRAME)` returns
AfterSend(c) ==
  /\ tasks[c]["send"] > 0
  /\ IF experiment[c].frame_count >= FramesToComplete
     THEN /\ experiment_results' = experiment_results \cup {c}
          /\ IF c \in clients
             THEN /\ tasks' = [tasks EXCEPT ![c] = Move(@, "send", "send_complete")]
                  /\ hist' = [hist EXCEPT ![c].completes = IF @ < 2 THEN @ + 1 ELSE @]
             ELSE /\ tasks' = [tasks EXCEPT ![c] = Move(@, "send", "done")]
                  /\ UNCHANGED hist
          /\ UNCHANGED <<clients, experiment_instances, experiment>>
     ELSE /\ tasks' = [tasks EXCEPT ![c] = Move(@, "send", "sleep")]
          /\ UNCHANGED <<clients, experiment_instances, experiment_results, experiment, hist>>
  /\ ignored' = NoMessage
  /\ UNCHANGED <<engineVars, carVars>>
  /\ Followed'

\* `await ws.send_json(EXPERIMENT_COMPLETE)` returns: running = False; break
AfterComplete(c) ==
  /\ tasks[c]["send_complete"] > 0
  /\ experiment' = [experiment EXCEPT ![c].running = FALSE]
  /\ tasks' = [tasks EXCEPT ![c] = Move(@, "send_complete", "done")]
  /\ UNCHANGED <<clients, experiment_instances, experiment_results, hist>>
  /\ ignored' = NoMessage
  /\ UNCHANGED <<engineVars, carVars>>
  /\ Followed'

\* `await asyncio.sleep(1/30)` returns: back to the loop head
AfterSleep(c) ==
  /\ tasks[c]["sleep"] > 0
  /\ \E encodeOk \in BOOLEAN : LoopHead(c, "sleep", encodeOk)
  /\ ignored' = NoMessage
  /\ UNCHANGED <<engineVars, carVars>>
  /\ Followed'

\* `await send_json(ERROR)` returns: the task ends
AfterError(c) ==
  /\ tasks[c]["send_error"] > 0
  /\ tasks' = [tasks EXCEPT ![c] = Move(@, "send_error", "done")]
  /\ UNCHANGED <<clients, experiment_instances, experiment_results, experiment, hist>>
  /\ ignored' = NoMessage
  /\ UNCHANGED <<engineVars, carVars>>
  /\ Followed'

generate_frames(c) ==
  \/ TaskBegin(c)
  \/ AfterSend(c)
  \/ AfterComplete(c)
  \/ AfterSleep(c)
  \/ AfterError(c)

handle_client_message(c) ==
  \/ start_experiment(c)
  \/ pause_experiment(c)
  \/ reset_experiment(c)
  \/ handle_key_event(c)
  \/ UnknownMessage(c)

handle_websocket(c) ==
  \/ Connect(c)
  \/ handle_client_message(c)
  \/ Disconnect(c)


(***************************************************************************)
(* example_experiment.py                                                   *)
(*                                                                         *)
(* Floating-point quantities (speed, position, progress) are fixed-point   *)
(* integers in units of 1/Scale, products by dt are truncated toward zero. *)
(* The two timers are counted in ticks; the tick at which the accumulated  *)
(* double crosses its threshold is the one IEEE-754 arithmetic gives.      *)
(***************************************************************************)

\* dt = 1/DtDen
DtDen == 30
Scale == DtDen * DtDen
total_rounds == 10
\* `countdown_timer += dt` first makes `countdown_timer >= 1` true at the
\* 31st addition: thirty additions of the double 1/30 give 0.9999999999999999
TicksToOne == 31
\* `round_end_timer -= dt` from 3 first makes `round_end_timer <= 0` true at
\* the 91st subtraction: ninety subtractions leave 6.7e-16
TicksFromThree == 91
total_distance == 500
merge_y == 300
merge_x == 400
max_accel == 20
high_speed == 40
adaptive_threshold == 35

\* accepted key presses per experiment
MaxKeys == 1
\* accepted key presses arrive from this round on ...
KeyFromRound == total_rounds
\* ... at these numbers of ticks after a phase change
KeyAges == {0, 1}
\* how far behind its start line (in track units) a car is followed
BackLimit == 1
\* start() calls followed after completion
MaxRestarts == 1

opponent_strategies == <<"aggressive", "cautious", "adaptive", "random">>

speed_levels == [k \in {"2", "3", "4", "5"} |->
                   CASE k = "2" -> 20 [] k = "3" -> 30 [] k = "4" -> 40 [] k = "5" -> 50]

\* the keys the viewer sends: a speed key below and one above the
\* thresholds 35 and 40, and a key that is no speed key
Keys == {"2", "4", "a"}

\* a reading of time.time() - start_time: some positive number
time_time == 1

Abs(v) == IF v >= 0 THEN v ELSE -v
Min(a, b) == IF a <= b THEN a ELSE b
Max(a, b) == IF a >= b THEN a ELSE b
\* a / b truncated toward zero, b > 0
Quot(a, b) == IF a >= 0 THEN a \div b ELSE -((-a) \div b)
\* math.copysign(m, s) for m >= 0
copysign(m, s) == IF s >= 0 THEN m ELSE -m

\* random.choice(seq) under the outcome index i
choice(seq, i) == seq[(i % Len(seq)) + 1]
\* random.uniform(a, b) = a + (b - a) * random(), in 1/Scale, at the outcome
\* i: 0 for random() = 0 (a), 1 for the upper end (b), 2 for random() =
\* 0.6666666666666666, two thirds of the way
uniform(a, b, i) ==
  IF i = 2 THEN a * Scale + Quot(2 * (b - a) * Scale, 3)
  ELSE a * Scale + (b - a) * Scale * i

\* the outcomes followed: every strategy, the first two outcomes of a draw
Rngs == [s : 0 .. 3, p : {0, 1}]

\* Car.__init__
Car(x, y, lane) ==
  [x |-> x * Scale, y |-> y * Scale, speed |-> 0, target_speed |-> 0,
   lane |-> lane, progress |-> 0]

\* Car.update(dt) for dt = num/den
CarStep(self, num, den) ==
  LET speed_diff == self.target_speed - self.speed
      acceleration == copysign(Quot(Min(Abs(speed_diff), max_accel * Scale) * num, den), speed_diff)
      speed == self.speed + acceleration
      distance == Quot(speed * num, den)
      y == self.y - distance
      progress == Min(100 * Scale, Max(0, Quot((total_distance * Scale - y) * 100, total_distance)))
      merging == y <= merge_y * Scale /\ self.lane # "center"
      distance_to_merge == Abs(self.x - merge_x * Scale)
      merge_speed == Quot(Quot(distance_to_merge * num, den) * Quot(y, Scale), merge_y)
      x == IF ~merging THEN self.x
           ELSE IF self.lane = "left" THEN Min(merge_x * Scale, self.x + merge_speed)
           ELSE Max(merge_x * Scale, self.x - merge_speed)
      lane == IF ~merging THEN self.lane
              ELSE IF self.lane = "left"
                   THEN (IF x >= merge_x * Scale THEN "center" ELSE self.lane)
                   ELSE (IF x <= merge_x * Scale THEN "center" ELSE self.lane)
  IN [x |-> x, y |-> y, speed |-> speed, target_speed |-> self.target_speed,
      lane |-> lane, progress |-> progress]

\* Car.update keeping the lane "center" only inside the merge zone
Car_update_zone(self, num, den) ==
  LET c == CarStep(self, num, den)
  IN IF c.lane = "center" /\ c.y > merge_y * Scale THEN [c EXCEPT !.lane = "right"] ELSE c

Car_update(self, num, den) == CarStep(self, num, den)

\* Car.update(dt) as update() calls it, dt = 1/DtDen
CarUpdate(self) == Car_update(self, 1, DtDen)

InitialResults ==
  [score |-> 0, opponentScore |-> 0, totalRounds |-> total_rounds, winRate |-> 0,
   averageSpeed |-> 0, highSpeedRate |-> 0, lowSpeedRate |-> 0,
   reactionTimes |-> << >>, speedChoices |-> << >>, rounds |-> << >>,
   shared |-> FALSE]

\* the attributes ExperimentRunner.__init__ assigns; g = the generator's outcomes
Attributes(g) ==
  [running |-> FALSE, complete |-> FALSE, round |-> 1,
   player_score |-> 0, opponent_score |-> 0,
   countdown |-> 3, countdown_timer |-> 0,
   round_ended |-> FALSE, round_winner |-> "None", round_end_timer |-> 0,
   player_car |-> Car(200, 500, "left"), opponent_car |-> Car(600, 500, "right"),
   current_strategy |-> choice(opponent_strategies, g.s),
   start_time |-> FALSE,
   reaction_times |-> << >>, speed_choices |-> << >>, rounds_data |-> << >>,
   results |-> InitialResults]

\* ExperimentRunner(): a new object, __init__ run on it
ExperimentRunner(g) == Attributes(g)

\* self.__init__() on an existing object: the attributes it assigns are
\* rebound, any other attribute of the object stays
init(self, g) ==
  [a \in DOMAIN self \cup DOMAIN Attributes(g) |->
     IF a \in DOMAIN Attributes(g) THEN Attributes(g)[a] ELSE self[a]]

start(r) == [r EXCEPT !.running = TRUE, !.start_time = TRUE]

pause(r) == [r EXCEPT !.running = FALSE]

\* reset() that forgets to start
reset_without_start(r, g) == init(r, g)

reset(r, g) == start(init(r, g))

\* handle_key_event recording a reaction time in every phase
key_event_always_samples(r, key, pressed) ==
  IF ~pressed \/ ~r.running THEN r
  ELSE IF key \notin {"2", "3", "4", "5"} THEN r
  ELSE [r EXCEPT !.player_car.target_speed = speed_levels[key] * Scale,
                 !.speed_choices = Append(@, speed_levels[key]),
                 !.reaction_times = Append(@, time_time)]

\* handle_key_event without the test of `pressed`: a release counts as a press
key_event_on_release(r, key, pressed) ==
  IF ~r.running THEN r
  ELSE IF key \notin {"2", "3", "4", "5"} THEN r
  ELSE LET r1 == [r EXCEPT !.player_car.target_speed = speed_levels[key] * Scale,
                           !.speed_choices = Append(@, speed_levels[key])]
       IN IF r1.countdown = 0 /\ ~r1.round_ended
          THEN [r1 EXCEPT !.reaction_times = Append(@, time_time)]
          ELSE r1

\* ExperimentRunner.handle_key_event
key_event(r, key, pressed) ==
  IF ~pressed \/ ~r.running THEN r
  ELSE IF key \notin {"2", "3", "4", "5"} THEN r
  ELSE LET speed == speed_levels[key]
           r1 == [r EXCEPT !.player_car.target_speed = speed * Scale,
                           !.speed_choices = Append(@, speed)]
       IN IF r1.countdown = 0 /\ ~r1.round_ended
          THEN [r1 EXCEPT !.reaction_times = Append(@, time_time)]
          ELSE r1

update_opponent(r, g) ==
  IF r.round_ended THEN r
  ELSE LET target_speed ==
             CASE r.current_strategy = "aggressive" ->
                    choice(<<speed_levels["4"], speed_levels["5"]>>, g.p) * Scale
               [] r.current_strategy = "cautious" ->
                    choice(<<speed_levels["2"], speed_levels["3"]>>, g.p) * Scale
               [] r.current_strategy = "adaptive" ->
                    IF r.player_car.speed > adaptive_threshold * Scale
                    THEN r.player_car.speed + uniform(-5, 10, g.p)
                    ELSE r.player_car.speed + uniform(-10, 5, g.p)
               [] OTHER ->
                    choice(<<speed_levels["2"], speed_levels["3"],
                             speed_levels["4"], speed_levels["5"]>>, g.p) * Scale
       IN [r EXCEPT !.opponent_car.target_speed = target_speed]

\* round_data giving nothing to either side for a tie
RoundRecord_tie_zero(r, winner) ==
  [round |-> r.round,
   playerSpeed |-> r.player_car.speed,
   opponentSpeed |-> r.opponent_car.speed,
   playerScore |-> IF winner = "player" THEN 10 ELSE 0,
   opponentScore |-> IF winner = "opponent" THEN 10 ELSE 0,
   winner |-> winner,
   reactionTime |-> IF Len(r.reaction_times) > 0
                    THEN r.reaction_times[Len(r.reaction_times)] ELSE 0,
   timestamp |-> time_time]

RoundRecord(r, winner) ==
  [round |-> r.round,
   playerSpeed |-> r.player_car.speed,
   opponentSpeed |-> r.opponent_car.speed,
   playerScore |-> IF winner = "player" THEN 10 ELSE IF winner = "tie" THEN 5 ELSE 0,
   opponentScore |-> IF winner = "opponent" THEN 10 ELSE IF winner = "tie" THEN 5 ELSE 0,
   winner |-> winner,
   reactionTime |-> IF Len(r.reaction_times) > 0
                    THEN r.reaction_times[Len(r.reaction_times)] ELSE 0,
   timestamp |-> time_time]

\* end_round with `self.rounds_data = [round_data]` for the append
EndRoundBody_replaces(r, winner) ==
  [r EXCEPT !.round_ended = TRUE,
            !.round_winner = winner,
            !.player_score = IF winner = "player" THEN @ + 10
                             ELSE IF winner = "tie" THEN @ + 5 ELSE @,
            !.opponent_score = IF winner = "opponent" THEN @ + 10
                               ELSE IF winner = "tie" THEN @ + 5 ELSE @,
            !.rounds_data = <<RoundRecord(r, winner)>>,
            !.round_end_timer = TicksFromThree]

\* the assignments of end_round past its guard
EndRoundBody(r, winner) ==
  [r EXCEPT !.round_ended = TRUE,
            !.round_winner = winner,
            !.player_score = IF winner = "player" THEN @ + 10
                             ELSE IF winner = "tie" THEN @ + 5 ELSE @,
            !.opponent_score = IF winner = "opponent" THEN @ + 10
                               ELSE IF winner = "tie" THEN @ + 5 ELSE @,
            !.rounds_data = Append(@, RoundRecord(r, winner)),
            !.round_end_timer = TicksFromThree]

Winner(r) ==
  IF r.player_car.progress > r.opponent_car.progress THEN "player"
  ELSE IF r.opponent_car.progress > r.player_car.progress THEN "opponent"
  ELSE "tie"

\* end_round without its `if self.round_ended: return`
end_round_unguarded(r) == EndRoundBody(r, Winner(r))

\* end_round comparing with >= : equal progress goes to the player
end_round_ge(r) ==
  IF r.round_ended THEN r
  ELSE EndRoundBody(r, IF r.player_car.progress >= r.opponent_car.progress
                       THEN "player" ELSE "opponent")

end_round(r) == IF r.round_ended THEN r ELSE EndRoundBody(r, Winner(r))

RECURSIVE SumSeq(_)
SumSeq(q) == IF q = << >> THEN 0 ELSE q[1] + SumSeq(Tail(q))

IsHigh(v) == v >= high_speed
IsLow(v) == v < high_speed
IsPlayerWin(rd) == rd.winner = "player"

\* ExperimentRunner.complete_experiment; ratios in 1/Scale.  The three list
\* entries of the results are the runner's own list objects (shared).
complete_experiment(r) ==
  LET n == Len(r.speed_choices)
  IN [r EXCEPT !.complete = TRUE,
               !.running = FALSE,
               !.results =
                 [score |-> r.player_score,
                  opponentScore |-> r.opponent_score,
                  totalRounds |-> total_rounds,
                  winRate |-> Quot(Len(SelectSeq(r.rounds_data, IsPlayerWin)) * Scale, total_rounds),
                  averageSpeed |-> IF n > 0 THEN Quot(SumSeq(r.speed_choices) * Scale, n) ELSE 0,
                  highSpeedRate |-> IF n > 0 THEN Quot(Len(SelectSeq(r.speed_choices, IsHigh)) * Scale, n) ELSE 0,
                  lowSpeedRate |-> IF n > 0 THEN Quot(Len(SelectSeq(r.speed_choices, IsLow)) * Scale, n) ELSE 0,
                  reactionTimes |-> r.reaction_times,
                  speedChoices |-> r.speed_choices,
                  rounds |-> r.rounds_data,
                  shared |-> TRUE]]

\* start_next_round forgetting `self.round_ended = False`
NewRound_still_ended(r, g) ==
  [r EXCEPT !.player_car = Car(200, 500, "left"),
            !.opponent_car = Car(600, 500, "right"),
            !.current_strategy = choice(opponent_strategies, g.s),
            !.round_winner = "None",
            !.countdown = 3,
            !.countdown_timer = 0]

\* the attributes start_next_round rebinds for a new round
NewRound(r, g) ==
  [r EXCEPT !.player_car = Car(200, 500, "left"),
            !.opponent_car = Car(600, 500, "right"),
            !.current_strategy = choice(opponent_strategies, g.s),
            !.round_ended = FALSE,
            !.round_winner = "None",
            !.countdown = 3,
            !.countdown_timer = 0]

\* start_next_round completing one round early (>= for >)
start_next_round_ge(r, g) ==
  LET r1 == [r EXCEPT !.round = @ + 1]
  IN IF r1.round >= total_rounds THEN complete_experiment(r1) ELSE NewRound(r1, g)

start_next_round(r, g) ==
  LET r1 == [r EXCEPT !.round = @ + 1]
  IN IF r1.round > total_rounds THEN complete_experiment(r1) ELSE NewRound(r1, g)

update_round_end_timer(r, g) ==
  IF ~r.round_ended THEN r
  ELSE LET r1 == [r EXCEPT !.round_end_timer = @ - 1]
       IN IF r1.round_end_timer <= 0 THEN start_next_round(r1, g) ELSE r1

\* update past its `if not self.running: return`
UpdateBody(r, g) ==
  IF r.countdown > 0
  THEN LET r1 == [r EXCEPT !.countdown_timer = @ + 1]
       IN IF r1.countdown_timer >= TicksToOne
          THEN [r1 EXCEPT !.countdown = @ - 1, !.countdown_timer = 0]
          ELSE r1
  ELSE LET r1 == [r EXCEPT !.player_car = CarUpdate(@), !.opponent_car = CarUpdate(@)]
           r2 == update_opponent(r1, g)
       IN IF r2.player_car.progress >= 100 * Scale \/ r2.opponent_car.progress >= 100 * Scale
          THEN end_round(r2)
          ELSE r2

\* update that runs while paused
update_unguarded(r, g) == UpdateBody(r, g)

update(r, g) == IF ~r.running THEN r ELSE UpdateBody(r, g)

get_frame(r, g) ==
  IF r.running
  THEN LET r1 == update(r, g)
       IN IF r1.round_ended THEN update_round_end_timer(r1, g) ELSE r1
  ELSE r

is_complete(r) == r.complete

\* ExperimentRunner.get_results: the results dict as a caller reads it
get_results(r) ==
  IF r.results.shared
  THEN [r.results EXCEPT !.reactionTimes = r.reaction_times,
                         !.speedChoices = r.speed_choices,
                         !.rounds = r.rounds_data]
  ELSE r.results

Phase(r) == <<r.round, r.countdown, r.round_ended, r.complete>>

\* the SessionState the flags denote
SessionState(r) ==
  IF r.complete THEN "Complete"
  ELSE IF r.round_ended THEN "RoundEnded"
  ELSE IF ~r.start_time THEN "Idle"
  ELSE IF r.countdown > 0 THEN "CountingDown"
  ELSE "RoundActive"

Aged(r, r2) == IF Phase(r2) # Phase(r) THEN 0 ELSE Min(age + 1, 2)

\* the cars are followed while they are at most BackLimit behind the start line
InRange(r) == r.opponent_car.y <= (total_distance + BackLimit) * Scale

\* the car of the Car.update walk, before it
CarIdle ==
  /\ car = Car(200, 500, "left")
  /\ dt = <<1, DtDen>>
  /\ ticks = 0

EngineInit ==
  /\ rng \in Rngs
  /\ runner = ExperimentRunner(rng)
  /\ age = 0
  /\ resetFrom = "none"

\* the engine as constructed, for the specification of the server
EngineIdle ==
  /\ rng = [s |-> 0, p |-> 0]
  /\ runner = ExperimentRunner(rng)
  /\ age = 0
  /\ resetFrom = "none"

Start ==
  /\ runner.complete => runner.round <= total_rounds + MaxRestarts
  /\ runner' = start(runner)
  /\ resetFrom' = "none"
  /\ UNCHANGED <<rng, age>>
  /\ UNCHANGED <<serverVars, carVars>>

Pause ==
  /\ runner' = pause(runner)
  /\ resetFrom' = "none"
  /\ UNCHANGED <<rng, age>>
  /\ UNCHANGED <<serverVars, carVars>>

Reset ==
  /\ runner' = reset(runner, rng)
  /\ age' = 0
  /\ resetFrom' = SessionState(runner)
  /\ UNCHANGED rng
  /\ UNCHANGED <<serverVars, carVars>>

KeyEvent ==
  \E key \in Keys, pressed \in BOOLEAN :
    /\ (pressed /\ runner.running /\ key \in DOMAIN speed_levels) =>
          /\ Len(runner.speed_choices) < MaxKeys
          /\ runner.round >= KeyFromRound
          /\ age \in KeyAges
    /\ runner' = key_event(runner, key, pressed)
    /\ resetFrom' = "none"
    /\ UNCHANGED <<rng, age>>
    /\ UNCHANGED <<serverVars, carVars>>

GetFrame ==
  /\ InRange(runner)
  /\ runner' = get_frame(runner, rng)
  /\ age' = Aged(runner, runner')
  /\ resetFrom' = "none"
  /\ UNCHANGED rng
  /\ UNCHANGED <<serverVars, carVars>>

\* update() called on its own, as the local test loop does
Update ==
  /\ InRange(runner)
  /\ ~runner.round_ended
  /\ runner' = update(runner, rng)
  /\ age' = Aged(runner, runner')
  /\ resetFrom' = "none"
  /\ UNCHANGED rng
  /\ UNCHANGED <<serverVars, carVars>>

EngineNext ==
  \/ Start
  \/ Pause
  \/ Reset
  \/ KeyEvent
  \/ GetFrame
  \/ Update

\* the engine driven on its own, with any of the random outcomes
EngineStart == ServerInit /\ EngineInit /\ CarIdle

EngineSpec == EngineStart /\ [][EngineNext]_vars


\* the outcomes followed tick by tick through whole experiments: those under
\* which no car leaves the track backwards (the adaptive opponent of a
\* player at rest draws uniform(-10, 5): its upper end or 0.0, not -10)
TickRngs == {g \in [s : 0 .. 3, p : 0 .. 2] :
               choice(opponent_strategies, g.s) = "adaptive" => g.p # 0}

TickInit ==
  /\ rng \in TickRngs
  /\ runner = ExperimentRunner(rng)
  /\ age = 0
  /\ resetFrom = "none"

\* get_frame() of a running session; age counts the running ticks of the
\* phase, up to TicksFromThree
Tick ==
  /\ runner.running
  /\ runner' = get_frame(runner, rng)
  /\ age' = IF Phase(runner') # Phase(runner) THEN 0 ELSE Min(age + 1, TicksFromThree)
  /\ resetFrom' = "none"
  /\ UNCHANGED rng
  /\ UNCHANGED <<serverVars, carVars>>

TickNext ==
  \/ Start
  \/ Tick

TickStart == ServerInit /\ TickInit /\ CarIdle

\* a started session ticked by get_frame(), no key pressed
TickSpec == TickStart /\ [][TickNext]_vars

\* the ticks continue for as long as the session runs
LiveSpec == TickSpec /\ WF_vars(Start) /\ WF_vars(Tick)

\* ticks of an active round followed with a fresh draw on every tick
DrawTicks == 6

\* get_frame() with the random module free to give either outcome on every
\* tick; age counts the ticks of the phase
DrawTick ==
  /\ runner.running
  /\ SessionState(runner) = "RoundActive" => age < DrawTicks
  /\ \E p \in {0, 1} :
       /\ rng' = [rng EXCEPT !.p = p]
       /\ runner' = get_frame(runner, rng')
  /\ age' = IF Phase(runner') # Phase(runner) THEN 0 ELSE age + 1
  /\ resetFrom' = "none"
  /\ UNCHANGED <<serverVars, carVars>>

DrawNext ==
  \/ Start
  \/ DrawTick

\* the engine ticking with independent draws, a few ticks into the first round
DrawSpec == EngineStart /\ [][DrawNext]_vars

\* Car.update calls followed on one car
MaxCarTicks == 6
\* the dt values of the calls: the frame time, one second, two seconds
Dts == {<<1, DtDen>>, <<1, 1>>, <<2, 1>>}
\* target speeds set on a car: the lowest the adaptive opponent draws at
\* rest, and the key '5'
Targets == {-10, 50}

CarInit ==
  /\ car \in {Car(200, 500, "left"), Car(600, 500, "right")}
  /\ dt = <<1, DtDen>>
  /\ ticks = 0

\* `player_car.target_speed = speed` / `opponent_car.target_speed = target_speed`
SetTarget ==
  /\ \E v \in Targets : car' = [car EXCEPT !.target_speed = v * Scale]
  /\ UNCHANGED <<dt, ticks>>
  /\ UNCHANGED <<serverVars, engineVars>>

\* car.update(dt)
CarTick ==
  /\ ticks < MaxCarTicks
  /\ \E d \in Dts :
       /\ dt' = d
       /\ car' = Car_update(car, d[1], d[2])
  /\ ticks' = ticks + 1
  /\ UNCHANGED <<serverVars, engineVars>>

CarNext ==
  \/ SetTarget
  \/ CarTick

\* one Car driven by update(dt) calls with any of the dt values
CarStart == ServerInit /\ EngineIdle /\ CarInit

CarSpec == CarStart /\ [][CarNext]_vars

ServerNext ==
  \E c \in ServerIds :
    \/ handle_websocket(c)
    \/ generate_frames(c)

Init == ServerInit /\ EngineIdle /\ CarIdle

PairNext ==
  \E c \in AllIds :
    \/ handle_websocket(c)
    \/ generate_frames(c)

\* two connections served by the one process
PairSpec == Init /\ [][PairNext]_vars

Spec == Init /\ [][ServerNext]_vars

(***************************************************************************)
(* Claims on PygameServer.py, checked under Spec                           *)
(***************************************************************************)
\* tasks of a connection that are inside the frame loop
ActiveLoops(c) == tasks[c]["send"] + tasks[c]["sleep"] + tasks[c]["send_complete"]

\* C1: at most one frame-generation loop is active for a session at any
\* time, whatever START, PAUSE and RESET messages arrive.
C1_AtMostOneLoop == \A c \in AllIds : ActiveLoops(c) <= 1

\* C2: between connect and the first RESET, and between two RESETs, a
\* session emits at most one EXPERIMENT_COMPLETE.
C2_AtMostOneComplete == \A c \in AllIds : hist[c].completes <= 1

\* C3: after EXPERIMENT_COMPLETE a session emits no FRAME until a RESET is
\* processed.
C3_NoFrameAfterComplete == \A c \in AllIds : ~hist[c].frameAfterComplete

\* C4: once a PAUSE is processed or the connection is closed, and no later
\* START or RESET is processed, at most one further frame emission attempt
\* occurs for the session.
C4_AtMostOneTickAfterStop == \A c \in AllIds : hist[c].stopTicks <= 1

\* C5: a RESET processed for a connected session leaves it running with an
\* active frame loop (or one about to run), in whatever state it was.
C5_ResetStartsLoop ==
  [][\A c \in AllIds :
       (c \in experiment_instances /\ reset_experiment(c))
         => (experiment'[c].running /\ Live(c)' >= 1)]_vars

\* C21: when frame generation raises inside the tick loop of a session, the
\* exception is caught, one ERROR message goes to the viewer, the loop of
\* that session ends and the session emits no further FRAME.
C21_NoFrameAfterError == \A c \in AllIds : hist[c].err # "frame"

\* C22: an inbound message whose type is missing or is none of START,
\* PAUSE, RESET, KEY_EVENT leaves the session state and the registries
\* unchanged, starts no loop and sends nothing, no ERROR either.
C22_UnknownTypeIgnored ==
  [][\A c \in AllIds :
       UnknownMessage(c) =>
         /\ experiment' = experiment
         /\ tasks' = tasks /\ Live(c)' = Live(c)
         /\ hist' = hist
         /\ UNCHANGED <<clients, experiment_instances, experiment_results>>]_vars

\* a message without a type was handled while the loop of the session runs
C22_Witness ==
  /\ ignored = <<"c1", "None">>
  /\ experiment["c1"].running /\ experiment["c1"].frame_count = 2
  /\ ActiveLoops("c1") = 1 /\ Live("c1") = 1

\* C23: START, PAUSE, RESET or KEY_EVENT dispatched for a connection
\* identifier that has no session (never opened, or removed) changes no
\* registry entry, creates no session and no loop, and sends nothing; a
\* task that finds its session removed returns before its first frame.
C23_NoSessionNoEffect ==
  [][\A c \in AllIds :
       c \notin experiment_instances =>
         /\ (start_experiment(c) \/ pause_experiment(c) \/ reset_experiment(c)
               \/ handle_key_event(c))
              => /\ UNCHANGED <<clients, experiment_instances, experiment_results>>
                 /\ experiment' = experiment
                 /\ tasks' = tasks
                 /\ hist' = hist
         /\ TaskBegin(c)
              => /\ UNCHANGED <<clients, experiment_instances, experiment_results>>
                 /\ experiment' = experiment
                 /\ Live(c)' = Live(c) - 1 /\ ActiveLoops(c)' = ActiveLoops(c)
                 /\ hist' = hist]_vars

\* START was dispatched for a connection that had run and was closed
C23_Witness ==
  /\ ignored = <<"c1", "START">>
  /\ hist["c1"].lastCtl = "CLOSE"
  /\ "c1" \notin clients /\ "c1" \notin experiment_instances
  /\ experiment["c1"].frame_count = 2
  /\ Live("c1") = 0

\* C24: a newly connected session is not running, has frame counter 0 and
\* no loop, and emits no FRAME and no EXPERIMENT_COMPLETE until a START or
\* RESET has been processed for it (start_time is set by these two only).
C24_NoAutoStart ==
  \A c \in AllIds :
    /\ hist[c].lastCtl \in {"none", "OPEN"} => ~experiment[c].start_time
    /\ ~experiment[c].start_time =>
         /\ ~experiment[c].running
         /\ experiment[c].frame_count = 0
         /\ Live(c) = 0
         /\ hist[c].completes = 0 /\ ~hist[c].frameAfterComplete
         /\ hist[c].err = "none"
         /\ c \notin experiment_results

\* connected, a PAUSE and a message of unknown type handled, never started
C24_Witness ==
  /\ "c1" \in clients /\ "c1" \in experiment_instances
  /\ hist["c1"].lastCtl = "PAUSE"
  /\ ignored = <<"c1", "PING">>
  /\ ~experiment["c1"].start_time /\ experiment["c1"].frame_count = 0

(***************************************************************************)
(* Claims on example_experiment.py, checked under EngineSpec               *)
(***************************************************************************)
Last(q) == q[Len(q)]

\* C6: from every reachable engine state reset() yields the state of a
\* fresh ExperimentRunner after start(): running, not complete, counting
\* down from 3, round 1, scores 0, fresh cars on their start positions, no
\* round records, reaction times or speed choices.
C6_ResetIsFreshStart ==
  LET r == reset(runner, rng)
  IN /\ r = start(ExperimentRunner(rng))
     /\ r.running /\ ~r.complete /\ ~r.round_ended
     /\ SessionState(r) = "CountingDown"
     /\ r.countdown = 3 /\ r.countdown_timer = 0
     /\ r.round = 1
     /\ r.player_score = 0 /\ r.opponent_score = 0
     /\ r.player_car = Car(200, 500, "left")
     /\ r.opponent_car = Car(600, 500, "right")
     /\ r.rounds_data = << >> /\ r.reaction_times = << >> /\ r.speed_choices = << >>
     /\ get_results(r) = InitialResults

\* reset() has just been called on a completed experiment
C6_Witness ==
  /\ resetFrom = "Complete"
  /\ runner.round = 1 /\ runner.running /\ runner.rounds_data = << >>

\* C7: while paused, ticks (update, get_frame) and key events leave the
\* whole engine state unchanged; pause() touches nothing but the running
\* flag, and start() resumes from exactly the paused state.
C7_PausedIsFrozen ==
  /\ ~runner.running =>
       /\ update(runner, rng) = runner
       /\ get_frame(runner, rng) = runner
       /\ \A key \in Keys, pressed \in BOOLEAN : key_event(runner, key, pressed) = runner
  /\ runner.running => start(pause(runner)) = runner
  /\ \A a \in DOMAIN runner \ {"running"} : pause(runner)[a] = runner[a]

\* paused in the middle of an active round
C7_Witness ==
  /\ ~runner.running /\ runner.start_time
  /\ SessionState(runner) = "RoundActive"
  /\ runner.opponent_car.progress > 0

\* C8: end_round is idempotent within a round: however often it is called
\* (it re-fires on every tick after the finish), a round has exactly one
\* RoundRecord and its points are awarded once.
C8_EndRoundIdempotent ==
  /\ end_round(end_round(runner)) = end_round(runner)
  /\ runner.round_ended => end_round(runner) = runner
  /\ \A i, j \in 1 .. Len(runner.rounds_data) :
       runner.rounds_data[i].round = runner.rounds_data[j].round => i = j
  /\ (runner.round_ended /\ ~runner.complete) =>
       /\ Len(runner.rounds_data) = runner.round
       /\ Last(runner.rounds_data).round = runner.round
  /\ runner.player_score + runner.opponent_score = 10 * Len(runner.rounds_data)

\* several ticks after a car reached the finish, the round still ended
C8_Witness ==
  /\ runner.round_ended /\ ~runner.complete /\ runner.running
  /\ runner.round_end_timer < TicksFromThree - 2
  /\ runner.opponent_car.progress >= 100 * Scale
  /\ Len(runner.rounds_data) = runner.round

\* C9: when a round ends, strictly greater progress wins 10 points and the
\* other side gets 0, equal progress is a tie with 5 points each, and the
\* winner and points of the RoundRecord are the increments of the scores.
C9_RoundScoring ==
  [][Len(runner'.rounds_data) = Len(runner.rounds_data) + 1 =>
       LET rec == Last(runner'.rounds_data)
           p == runner'.player_car.progress
           o == runner'.opponent_car.progress
       IN /\ p > o => (rec.winner = "player" /\ rec.playerScore = 10 /\ rec.opponentScore = 0)
          /\ o > p => (rec.winner = "opponent" /\ rec.playerScore = 0 /\ rec.opponentScore = 10)
          /\ p = o => (rec.winner = "tie" /\ rec.playerScore = 5 /\ rec.opponentScore = 5)
          /\ runner'.round_winner = rec.winner
          /\ runner'.player_score = runner.player_score + rec.playerScore
          /\ runner'.opponent_score = runner.opponent_score + rec.opponentScore]_vars

\* both cars reached the finish in the same tick
C9_Witness ==
  /\ runner.round_ended /\ runner.round_winner = "tie"
  /\ runner.player_car.progress = 100 * Scale
  /\ runner.opponent_car.progress = 100 * Scale
  /\ Last(runner.rounds_data).winner = "tie"
  /\ Last(runner.rounds_data).playerScore = 5
  /\ runner.round_end_timer >= TicksFromThree - 1

\* C10: the session is Complete exactly once the 10 rounds are over: never
\* with fewer or more than 10 RoundRecords, and the results then carry 10.
C10_CompleteAtTotalRounds ==
  /\ runner.complete <=> runner.round > total_rounds
  /\ runner.complete =>
       /\ Len(runner.rounds_data) = total_rounds
       /\ Len(get_results(runner).rounds) = total_rounds
  /\ Len(runner.rounds_data) <= total_rounds
  /\ Len(runner.rounds_data) \in {runner.round - 1, runner.round} \/ runner.complete

C10_Witness ==
  /\ is_complete(runner)
  /\ Len(runner.rounds_data) = 10
  /\ Len(get_results(runner).rounds) = 10
  /\ runner.rounds_data[10].round = 10

\* C11: for a running session, a press of a speed key during the countdown
\* or after the round has ended sets the player's target speed and appends
\* no reaction-time sample; a press while the round is active sets the
\* target speed and appends exactly one sample.
C11_ReactionTimeOnlyInRound ==
  runner.running =>
    \A key \in DOMAIN speed_levels :
      LET r2 == key_event(runner, key, TRUE)
      IN /\ r2.player_car.target_speed = speed_levels[key] * Scale
         /\ r2.speed_choices = Append(runner.speed_choices, speed_levels[key])
         /\ (runner.countdown > 0 \/ runner.round_ended)
              => r2.reaction_times = runner.reaction_times
         /\ (runner.countdown = 0 /\ ~runner.round_ended)
              => /\ Len(r2.reaction_times) = Len(runner.reaction_times) + 1
                 /\ SubSeq(r2.reaction_times, 1, Len(runner.reaction_times))
                      = runner.reaction_times

\* a press was taken during the countdown: a speed choice, a target speed,
\* no reaction time
C11_Witness ==
  /\ runner.running /\ runner.countdown > 0
  /\ Len(runner.speed_choices) = 1
  /\ runner.player_car.target_speed = runner.speed_choices[1] * Scale
  /\ runner.reaction_times = << >>

\* keys that are none of the four speed keys
OtherKeys == {"a", "1", "6", "0", " ", "ArrowUp", "22", ""}

\* C12: a key event with pressed = false, or with a key other than '2',
\* '3', '4', '5', leaves the whole engine state unchanged; a press and a
\* release of '4' while the round is active give one change of the target
\* speed (to 40), one speed choice and one reaction-time sample.
C12_OnlyPressesOfSpeedKeys ==
  /\ \A key \in Keys \cup OtherKeys : key_event(runner, key, FALSE) = runner
  /\ \A key \in OtherKeys, pressed \in BOOLEAN : key_event(runner, key, pressed) = runner
  /\ (runner.running /\ runner.countdown = 0 /\ ~runner.round_ended) =>
       key_event(key_event(runner, "4", TRUE), "4", FALSE)
         = [runner EXCEPT !.player_car.target_speed = 40 * Scale,
                          !.speed_choices = Append(@, 40),
                          !.reaction_times = Append(@, time_time)]

\* '4' was pressed while the round was active
C12_Witness ==
  /\ runner.running /\ runner.countdown = 0 /\ ~runner.round_ended
  /\ runner.speed_choices = <<40>>
  /\ Len(runner.reaction_times) = 1
  /\ runner.player_car.target_speed = 40 * Scale

\* C13: the results are computed once, at the transition to Complete, and
\* no later operation other than reset() (start, pause, key events, ticks)
\* changes any of their fields, the lists they carry included.
C13_ResultsImmutable ==
  [][/\ ~runner'.complete => get_results(runner') = InitialResults
     /\ (runner.complete /\ runner'.complete)
          => get_results(runner') = get_results(runner)]_vars

\* position, speed, progress and lane of a car
Pose(self) == <<self.x, self.y, self.speed, self.progress, self.lane>>

\* C14: while a round is in RoundEnded, from the tick that ends it until the
\* next round starts, both cars are frozen: position, speed, progress and
\* lane change on no tick.
C14_FrozenInRoundEnded ==
  [][(SessionState(runner) = "RoundEnded" /\ SessionState(runner') = "RoundEnded"
        /\ runner'.round = runner.round)
       => /\ Pose(runner'.player_car) = Pose(runner.player_car)
          /\ Pose(runner'.opponent_car) = Pose(runner.opponent_car)]_vars

\* the phase changes of the engine other than by reset()
PhaseOrder ==
  {<<"Idle", "CountingDown">>, <<"CountingDown", "RoundActive">>,
   <<"RoundActive", "RoundEnded">>, <<"RoundEnded", "CountingDown">>,
   <<"RoundEnded", "Complete">>}

\* C15: the flags always denote one phase (never started: the attributes of
\* a new runner; a countdown only in an unfinished round; Complete only past
\* the last round), and apart from reset() the phase changes only along
\* Idle -> CountingDown -> RoundActive -> RoundEnded -> CountingDown of the
\* next round or Complete; the round index moves only when RoundEnded is
\* left, and Complete is left only by reset().
C15_PhaseOrder ==
  [][/\ runner.countdown \in 0 .. 3
     /\ runner.round_ended => runner.countdown = 0
     /\ runner.complete => (runner.round_ended /\ runner.round > total_rounds)
     /\ ~runner.complete => runner.round \in 1 .. total_rounds
     /\ ~runner.start_time =>
          (~runner.running /\ [runner EXCEPT !.current_strategy = "none"]
                               = [Attributes(rng) EXCEPT !.current_strategy = "none"])
     /\ resetFrom' = "none" =>
          LET a == SessionState(runner)
              b == SessionState(runner')
          IN /\ a # b => <<a, b>> \in PhaseOrder
             /\ (a = "RoundEnded" /\ b = "CountingDown") => runner'.round = runner.round + 1
             /\ (a = "RoundEnded" /\ b = "Complete") => runner'.round = total_rounds + 1
             /\ (a # "Complete" /\ (a = b \/ a # "RoundEnded")) => runner'.round = runner.round
     /\ resetFrom' # "none" => SessionState(runner') = "CountingDown"]_vars

\* the second round counts down after the first went through every phase
C15_Witness ==
  /\ SessionState(runner) = "CountingDown"
  /\ runner.round = 2 /\ runner.countdown = 1
  /\ Len(runner.rounds_data) = 1

\* C16: within a round the progress of each car, under every opponent
\* strategy and every player input, never decreases from one tick to the
\* next and lies in [0, 100].
C16_ProgressMonotone ==
  [][(runner'.round = runner.round /\ resetFrom' = "none") =>
       /\ runner'.player_car.progress >= runner.player_car.progress
       /\ runner'.opponent_car.progress >= runner.opponent_car.progress
       /\ runner'.player_car.progress \in 0 .. 100 * Scale
       /\ runner'.opponent_car.progress \in 0 .. 100 * Scale]_vars

\* C17: for every dt > 0 and every pair of speed and target speed, one
\* update changes the speed by at most min(|target - speed|, 20) * dt and
\* never carries it past the target: the new speed lies between the old
\* speed and the target.
C17_NoOvershoot ==
  [][ticks' = ticks + 1 =>
       LET diff == car.target_speed - car.speed
       IN /\ Abs(car'.speed - car.speed) * dt'[2]
               <= Min(Abs(diff), max_accel * Scale) * dt'[1]
          /\ car'.speed >= Min(car.speed, car.target_speed)
          /\ car'.speed <= Max(car.speed, car.target_speed)]_vars

\* C18: once the lane of a car is "center" it stays "center" on every later
\* update of that car, past the finish line included.
C18_CenterStays ==
  [][car.lane = "center" => car'.lane = "center"]_vars

\* a car that merged to the center and was updated again since
C18_Witness ==
  /\ car.lane = "center" /\ car.x = merge_x * Scale
  /\ car.y < merge_y * Scale
  /\ ticks >= 4

\* what the process holds for connection d
SessionOf(d) ==
  <<d \in clients, d \in experiment_instances, d \in experiment_results,
    experiment[d], tasks[d], hist[d]>>

\* C19: sessions are isolated: a message, tick, error, completion or
\* disconnect of one connection leaves the session state (running flag,
\* frame counter, start time), the registry entries and the frame loops of
\* every other connection unchanged.
C19_Isolation ==
  [][\A c \in AllIds :
       (handle_websocket(c) \/ generate_frames(c))
         => \A d \in AllIds \ {c} : SessionOf(d)' = SessionOf(d)]_vars

\* one session was paused while the other one keeps sending frames
C19_Witness ==
  /\ clients = {"c1", "c2"}
  /\ experiment["c1"].running /\ experiment["c1"].frame_count = 1 /\ Live("c1") = 1
  /\ hist["c2"].lastCtl = "PAUSE" /\ ~experiment["c2"].running
  /\ experiment["c2"].frame_count = 1

\* C20: after a connection is closed its identifier is in none of the
\* process-wide registries (connections, session instances, results),
\* whatever the session did before, completion included.
C20_NothingRetained ==
  \A c \in AllIds :
    hist[c].lastCtl = "CLOSE" =>
      /\ c \notin clients
      /\ c \notin experiment_instances
      /\ c \notin experiment_results

\* C26: the RoundRecords are append-only and immutable: a step other than
\* reset() keeps every record and adds at most one, the k-th record carries
\* round index k, and there are never more than 10, whatever ticks, key
\* events, pause() and start() (after completion too) are called.
C26_RecordsAppendOnly ==
  [][/\ resetFrom' = "none" =>
          /\ Len(runner'.rounds_data) \in {Len(runner.rounds_data), Len(runner.rounds_data) + 1}
          /\ SubSeq(runner'.rounds_data, 1, Len(runner.rounds_data)) = runner.rounds_data
     /\ resetFrom' # "none" => runner'.rounds_data = << >>
     /\ \A k \in 1 .. Len(runner'.rounds_data) : runner'.rounds_data[k].round = k
     /\ Len(runner'.rounds_data) <= total_rounds]_vars

\* a completed experiment was started again and ticked: the ten records stay
C26_Witness ==
  /\ runner.complete /\ runner.round = total_rounds + 2
  /\ Len(runner.rounds_data) = total_rounds
  /\ \A k \in 1 .. total_rounds : runner.rounds_data[k].round = k
  /\ Len(runner.speed_choices) = 1

\* points of one side over the records
RECURSIVE SumPoints(_, _)
SumPoints(q, side) == IF q = << >> THEN 0 ELSE q[1][side] + SumPoints(Tail(q), side)

\* C28: in every reachable state player_score + opponent_score is 10 times
\* the number of RoundRecords, and each score is the sum of the points the
\* records award to that side.
C28_ScoresMatchRecords ==
  /\ runner.player_score + runner.opponent_score = 10 * Len(runner.rounds_data)
  /\ runner.player_score = SumPoints(runner.rounds_data, "playerScore")
  /\ runner.opponent_score = SumPoints(runner.rounds_data, "opponentScore")

\* nine rounds went to the opponent and the tenth was a tie
C28_Witness ==
  /\ Len(runner.rounds_data) = total_rounds
  /\ runner.rounds_data[total_rounds].winner = "tie"
  /\ runner.rounds_data[1].winner = "opponent"
  /\ runner.player_score = 5 /\ runner.opponent_score = 95

(***************************************************************************)
(* Claims on the timing of the phases, checked under TickSpec              *)
(***************************************************************************)
\* C25: with the tick of 1/30, every count of the countdown takes 30 running
\* ticks, so the cars stand still during the first 90 running ticks of a
\* round, and the next round's countdown, or completion, begins 90 running
\* ticks after the tick that ended the round.
C25_TickTiming ==
  [][/\ runner'.countdown < runner.countdown => age + 1 = DtDen
     /\ (runner.running /\ runner.countdown > 0) =>
          /\ Pose(runner'.player_car) = Pose(runner.player_car)
          /\ Pose(runner'.opponent_car) = Pose(runner.opponent_car)
     /\ (SessionState(runner) = "RoundEnded" /\ SessionState(runner') # "RoundEnded")
          => age + 1 = 3 * DtDen]_vars

(***************************************************************************)
(* Termination, checked under LiveSpec                                     *)
(***************************************************************************)
\* C27: once a session is started and the ticks continue without a pause,
\* every round ends and the session reaches Complete, under every opponent
\* strategy and every player input, no input at all included.
C27_EventuallyComplete == runner.running ~> runner.complete

====
